---- MODULE Spec2Model ----
(***************************************************************************)
(* rodbot: one run of the bot (src/main.rs), the rule runner and the       *)
(* condition evaluator (src/runner.rs) and the command template renderer   *)
(* (src/runner.rs, eval and JsonPathReplacer).                             *)
(*                                                                         *)
(* Text is a sequence of one-character strings.  Four specifications share *)
(* the module:                                                             *)
(*   Spec        the run of main: event, configuration, rule blocks, steps *)
(*   SpecCommand is_command applied to a name and a comment body           *)
(*   SpecEval    IfIssueComment::eval applied to a condition and an event  *)
(*   SpecRender  eval (the template renderer) applied to a text, a context *)
(***************************************************************************)
EXTENDS Integers, Sequences, FiniteSets, TLC

VARIABLES
    pc,         \* position of main: start, config, context, block, step, done, failed
    env,        \* GITHUB_EVENT_NAME as from_env read it: a name, or None when unset
    event,      \* the IssueCommentEvent main parsed
    config,     \* the Config main loaded
    blk,        \* index of the rule block Vec::run is at
    stp,        \* index of the step Vec::run is at inside that block
    evaluated,  \* log: the rule blocks whose `if` list was evaluated, with the verdict
    rendered,   \* log: the steps whose template was rendered, with the outcome
    executed,   \* log: the shell commands invoked, with the exit status
    result,     \* what main returns
    command,    \* is_command: the command name
    body,       \* is_command: the comment body
    matched,    \* is_command: the result
    cond,       \* IfIssueComment::eval: the condition
    subject,    \* IfIssueComment::eval: the event
    verdict,    \* IfIssueComment::eval: the result
    text,       \* eval: the template
    ctx,        \* eval: the context
    out         \* eval: the result

runVars == <<pc, env, event, config, blk, stp, evaluated, rendered, executed, result>>
commandVars == <<command, body, matched>>
evalVars == <<cond, subject, verdict>>
renderVars == <<text, ctx, out>>
vars == <<pc, env, event, config, blk, stp, evaluated, rendered, executed, result,
          command, body, matched, cond, subject, verdict, text, ctx, out>>

\* Option::None, and the Option<Vec<_>> of On::issue_comment
None == "None"
NoVec == [some |-> FALSE, v |-> <<>>]
SomeVec(l) == [some |-> TRUE, v |-> l]

(***************************************************************************)
(* Bounds                                                                  *)
(***************************************************************************)
\* longest command name of SpecCommand
MaxName == 2
\* longest comment body of SpecCommand
MaxBody == 4
\* longest condition list of SpecEval
MaxList == 2
\* most fragments a template of SpecRender is made of
MaxFrags == 4
\* most rule blocks of a configuration of Spec
MaxBlocks == 2
\* most steps of a configuration of Spec, over all its rule blocks
MaxSteps == 2

(***************************************************************************)
(* Text                                                                    *)
(***************************************************************************)
\* all sequences over S of length at most n
SeqsUpTo(S, n) == UNION {[1..k -> S] : k \in 0..n}

\* char::is_whitespace, on the characters the model uses
IsWhitespace(c) == c \in {" ", "\t", "\n", "\r"}

RECURSIVE TrimStart(_)
\* str::trim_start
TrimStart(s) ==
    IF s # <<>> /\ IsWhitespace(Head(s)) THEN TrimStart(Tail(s)) ELSE s

RECURSIVE TrimEnd(_)
\* str::trim_end
TrimEnd(s) ==
    IF s # <<>> /\ IsWhitespace(s[Len(s)])
    THEN TrimEnd(SubSeq(s, 1, Len(s) - 1))
    ELSE s

\* str::trim
Trim(s) == TrimEnd(TrimStart(s))

\* str::starts_with
StartsWith(s, p) == Len(p) <= Len(s) /\ SubSeq(s, 1, Len(p)) = p

RECURSIVE IndexOf(_, _, _)
\* the first position >= i of s holding character c, or Len(s) + 1
IndexOf(s, c, i) ==
    IF i > Len(s) THEN Len(s) + 1
    ELSE IF s[i] = c THEN i
    ELSE IndexOf(s, c, i + 1)

\* str::lines().next(): None for the empty string; otherwise the text before the
\* first "\n", less a "\r" that ends it
FirstLine(s) ==
    IF s = <<>> THEN None
    ELSE LET n == IndexOf(s, "\n", 1)
             raw == SubSeq(s, 1, n - 1)
         IN  IF n <= Len(s) /\ raw # <<>> /\ raw[Len(raw)] = "\r"
             THEN SubSeq(raw, 1, Len(raw) - 1)
             ELSE raw

(***************************************************************************)
(* is_command (src/runner.rs)                                              *)
(***************************************************************************)
\* is_command with the trim left out
is_command_untrimmed(name, b) ==
    LET line == FirstLine(b) IN
    IF b # <<>> THEN StartsWith(line, <<"/">> \o name) ELSE FALSE

\* fn is_command: the first line, trimmed, starts with "/" and the name; false
\* when lines() yields nothing (b is empty exactly then)
is_command(name, b) ==
    LET line == FirstLine(b) IN
    IF b # <<>> THEN StartsWith(Trim(line), <<"/">> \o name) ELSE FALSE

(***************************************************************************)
(* Conditions (src/config.rs, IfIssueComment) and their evaluation         *)
(***************************************************************************)
Not(c) == [kind |-> "not", of |-> <<c>>]
And(l) == [kind |-> "and", of |-> l]
Or(l) == [kind |-> "or", of |-> l]
IsPr == [kind |-> "is_pr", of |-> <<>>]
UserIs(s) == [kind |-> "user_is", of |-> s]
UserIn(s) == [kind |-> "user_in", of |-> s]
Command(name) == [kind |-> "command", of |-> name]

\* an IssueCommentEvent, with the fields the evaluator reads
IssueCommentEvent(pull_request, author_association, login, b) ==
    [issue |-> [pull_request |-> pull_request],
     comment |-> [author_association |-> author_association,
                  user |-> [login |-> login],
                  body |-> b]]

RECURSIVE EvalCond(_, _)
RECURSIVE EvalVec(_, _)

\* impl Eval for Vec<T>: false at the first item that is false, true at the end
EvalVec(list, payload) ==
    IF list = <<>> THEN TRUE
    ELSE IF ~EvalCond(Head(list), payload) THEN FALSE
    ELSE EvalVec(Tail(list), payload)

\* `or` that is true of the empty list
EvalOrVacuous(list, payload) ==
    \A i \in DOMAIN list : EvalCond(list[i], payload)

\* `or`: true at the first child that is true, false at the end (also when empty)
EvalOr(list, payload) ==
    \E i \in DOMAIN list : EvalCond(list[i], payload)

\* `not`: the negation of its child
EvalNot(c, payload) == ~EvalCond(c, payload)

\* the leaves of impl Eval for IfIssueComment
EvalLeaf(c, payload) ==
    CASE c.kind = "is_pr" -> payload.issue.pull_request # None
      [] c.kind = "user_is" -> payload.comment.author_association \in c.of
      [] c.kind = "user_in" -> payload.comment.user.login \in c.of
      [] c.kind = "command" -> is_command(c.of, payload.comment.body)

\* impl Eval for IfIssueComment.  The match in the source has the four leaf arms
\* only; `and` is given to the list evaluation the source has (Vec<T>::eval),
\* `or` and `not` have no code and follow their description.
EvalCond(c, payload) ==
    CASE c.kind = "not" -> EvalNot(c.of[1], payload)
      [] c.kind = "and" -> EvalVec(c.of, payload)
      [] c.kind = "or" -> EvalOr(c.of, payload)
      [] OTHER -> EvalLeaf(c, payload)

(***************************************************************************)
(* JSON values (serde_json::Value): a tag t and a value v.  An object is a *)
(* sequence of members [k, v] in key order, an array a sequence of values. *)
(***************************************************************************)
JString(s) == [t |-> "string", v |-> s]
JNumber(n) == [t |-> "number", v |-> n]
JBool(b) == [t |-> "bool", v |-> b]
JNull == [t |-> "null", v |-> 0]
JObject(members) == [t |-> "object", v |-> members]
JArray(items) == [t |-> "array", v |-> items]
Member(k, v) == [k |-> k, v |-> v]

Digit(d) == <<"0", "1", "2", "3", "4", "5", "6", "7", "8", "9">>[d + 1]

RECURSIVE NumberToString(_)
\* serde_json::Number::to_string, for an unsigned integer
NumberToString(n) ==
    IF n < 10 THEN <<Digit(n)>>
    ELSE NumberToString(n \div 10) \o <<Digit(n % 10)>>

\* bool::to_string
BoolToString(b) == IF b THEN <<"t", "r", "u", "e">> ELSE <<"f", "a", "l", "s", "e">>

(***************************************************************************)
(* jsonpath::Selector, as JsonPathReplacer::replace calls it: the crate is *)
(* not part of the repository.  A path is "$" followed by selectors, each   *)
(* ".name" (a child) or ".*" (every member or item); any other text does   *)
(* not compile.                                                            *)
(***************************************************************************)
IsNameChar(c) ==
    c \in {"a", "b", "c", "d", "e", "f", "g", "h", "i", "j", "k", "l", "m", "n",
           "o", "p", "q", "r", "s", "t", "u", "v", "w", "x", "y", "z", "H", "W",
           "0", "1", "2", "3", "4", "5", "6", "7", "8", "9", "_"}

RECURSIVE NameLen(_)
\* length of the longest prefix of s made of name characters
NameLen(s) ==
    IF s # <<>> /\ IsNameChar(Head(s)) THEN 1 + NameLen(Tail(s)) ELSE 0

RECURSIVE ParseSelectors(_)
\* the selectors of a path after its "$": [ok, segs]
ParseSelectors(s) ==
    IF s = <<>> THEN [ok |-> TRUE, segs |-> <<>>]
    ELSE IF Head(s) # "." THEN [ok |-> FALSE, segs |-> <<>>]
    ELSE LET r == Tail(s) IN
         IF r # <<>> /\ Head(r) = "*"
         THEN LET more == ParseSelectors(Tail(r)) IN
              [ok |-> more.ok, segs |-> <<[kind |-> "wildcard", name |-> <<>>]>> \o more.segs]
         ELSE LET n == NameLen(r) IN
              IF n = 0 THEN [ok |-> FALSE, segs |-> <<>>]
              ELSE LET more == ParseSelectors(SubSeq(r, n + 1, Len(r))) IN
                   [ok |-> more.ok,
                    segs |-> <<[kind |-> "child", name |-> SubSeq(r, 1, n)]>> \o more.segs]

\* Selector::new
SelectorNew(path) ==
    IF path # <<>> /\ Head(path) = "$"
    THEN ParseSelectors(Tail(path))
    ELSE [ok |-> FALSE, segs |-> <<>>]

RECURSIVE Find(_, _)
RECURSIVE FindEach(_, _)

\* the matches of segs in each value of the sequence vs, in order
FindEach(segs, vs) ==
    IF vs = <<>> THEN <<>>
    ELSE Find(segs, Head(vs)) \o FindEach(segs, Tail(vs))

\* the values of an object's members, or an array's items
Children(value) ==
    IF value.t = "object" THEN [i \in DOMAIN value.v |-> value.v[i].v]
    ELSE IF value.t = "array" THEN value.v
    ELSE <<>>

\* Selector::find: the values the selectors reach from value, in document order
Find(segs, value) ==
    IF segs = <<>> THEN <<value>>
    ELSE LET s == Head(segs) IN
         IF s.kind = "wildcard" THEN FindEach(Tail(segs), Children(value))
         ELSE IF value.t = "object"
              THEN LET hit == SelectSeq(value.v, LAMBDA m : m.k = s.name) IN
                   FindEach(Tail(segs), [i \in DOMAIN hit |-> hit[i].v])
              ELSE <<>>

(***************************************************************************)
(* The template renderer (src/runner.rs: RE, JsonPathReplacer, eval)       *)
(***************************************************************************)
\* the scalar matches of JsonPathReplacer::replace's filter_map, as strings
RECURSIVE ScalarStrings(_)
ScalarStrings(vs) ==
    IF vs = <<>> THEN <<>>
    ELSE LET h == Head(vs)
             rest == ScalarStrings(Tail(vs))
         IN  CASE h.t = "string" -> <<h.v>> \o rest
               [] h.t = "number" -> <<NumberToString(h.v)>> \o rest
               [] h.t = "bool" -> <<BoolToString(h.v)>> \o rest
               [] OTHER -> rest

\* the strings JsonPathReplacer::replace collects for an expression, given that
\* its path compiles
Matches(expr, context) ==
    ScalarStrings(Find(SelectorNew(<<"$", ".">> \o Trim(expr)).segs, context))

\* whether the path of an expression compiles
Compiles(expr) == SelectorNew(<<"$", ".">> \o Trim(expr)).ok

\* JsonPathReplacer::replace that takes the first of several matches
replace_first(expr, context) ==
    IF ~Compiles(expr) THEN [ok |-> FALSE, s |-> <<>>, err |-> "compile"]
    ELSE LET val == Matches(expr, context) IN
         IF val = <<>> THEN [ok |-> TRUE, s |-> <<>>, err |-> ""]
         ELSE [ok |-> TRUE, s |-> val[1], err |-> ""]

\* JsonPathReplacer::replace that fails when nothing matches
replace_strict(expr, context) ==
    IF ~Compiles(expr) THEN [ok |-> FALSE, s |-> <<>>, err |-> "compile"]
    ELSE LET val == Matches(expr, context) IN
         IF Len(val) = 1 THEN [ok |-> TRUE, s |-> val[1], err |-> ""]
         ELSE [ok |-> FALSE, s |-> <<>>, err |-> "count"]

\* JsonPathReplacer::replace: [ok, s, err]
replace(expr, context) ==
    IF ~Compiles(expr) THEN [ok |-> FALSE, s |-> <<>>, err |-> "compile"]
    ELSE LET val == Matches(expr, context) IN
         CASE Len(val) = 0 -> [ok |-> TRUE, s |-> <<>>, err |-> ""]
           [] Len(val) = 1 -> [ok |-> TRUE, s |-> val[1], err |-> ""]
           [] OTHER -> [ok |-> FALSE, s |-> <<>>, err |-> "more than one"]

\* whether s holds p at position i
HasAt(s, i, p) == i + Len(p) - 1 <= Len(s) /\ SubSeq(s, i, i + Len(p) - 1) = p

RECURSIVE CloseAt(_, _)
\* RE's lazy (.*?)\}\} from position i: the first position j >= i holding "}}"
\* with no "\n" in between ("." matches no line break), or 0
CloseAt(s, i) ==
    IF i > Len(s) THEN 0
    ELSE IF HasAt(s, i, <<"}", "}">>) THEN i
    ELSE IF s[i] = "\n" THEN 0
    ELSE CloseAt(s, i + 1)

RECURSIVE ReplaceAll(_, _, _)
\* RE.replace_all(text, JsonPathReplacer) from position i: the text outside the
\* matches of RE is copied, each match is given to replace_append, which appends
\* the replacement or records the error: [dst, errors]
ReplaceAll(s, i, context) ==
    IF i > Len(s) THEN [dst |-> <<>>, errors |-> <<>>]
    ELSE LET j == IF HasAt(s, i, <<"$", "{", "{">>) THEN CloseAt(s, i + 3) ELSE 0 IN
         IF j = 0
         THEN LET more == ReplaceAll(s, i + 1, context) IN
              [dst |-> <<s[i]>> \o more.dst, errors |-> more.errors]
         ELSE LET r == replace(SubSeq(s, i + 3, j - 1), context)
                  more == ReplaceAll(s, j + 2, context)
              IN  IF r.ok
                  THEN [dst |-> r.s \o more.dst, errors |-> more.errors]
                  ELSE [dst |-> more.dst, errors |-> <<r.err>> \o more.errors]

RECURSIVE Sites(_, _)
\* the matches of RE in s from position i, in order: [from, to, expr], the match
\* being s[from..to] and expr its capture group
Sites(s, i) ==
    IF i > Len(s) THEN <<>>
    ELSE LET j == IF HasAt(s, i, <<"$", "{", "{">>) THEN CloseAt(s, i + 3) ELSE 0 IN
         IF j = 0 THEN Sites(s, i + 1)
         ELSE <<[from |-> i, to |-> j + 1, expr |-> SubSeq(s, i + 3, j - 1)]>>
              \o Sites(s, j + 2)

\* eval that returns the text whatever the errors
eval_lenient(template, context) ==
    LET r == ReplaceAll(template, 1, context) IN
    [ok |-> TRUE, text |-> r.dst, errors |-> <<>>]

\* eval: Ok(text) as [ok |-> TRUE, text], Err as [ok |-> FALSE, errors]; an Err
\* carries no text
eval(template, context) ==
    LET r == ReplaceAll(template, 1, context) IN
    IF r.errors # <<>>
    THEN [ok |-> FALSE, text |-> <<>>, errors |-> r.errors]
    ELSE [ok |-> TRUE, text |-> r.dst, errors |-> <<>>]

(***************************************************************************)
(* The run (src/main.rs: main; src/event.rs: Event::from_env;              *)
(* src/runner.rs: the Runner impls and run)                                *)
(***************************************************************************)
\* Event::from_env that takes every event name for an issue comment
from_env_any(name, payload_ok) ==
    IF name # None
    THEN IF payload_ok THEN [ok |-> TRUE, err |-> ""]
         ELSE [ok |-> FALSE, err |-> "Failed to parse event payload"]
    ELSE [ok |-> FALSE, err |-> "Missing GITHUB_EVENT_NAME"]

\* Event::from_env, given GITHUB_EVENT_NAME and whether the payload parses
from_env(name, payload_ok) ==
    IF name = "issue_comment"
    THEN IF payload_ok THEN [ok |-> TRUE, err |-> ""]
         ELSE [ok |-> FALSE, err |-> "Failed to parse event payload"]
    ELSE IF name # None
    THEN [ok |-> FALSE, err |-> "Unknown or unsupported event type"]
    ELSE [ok |-> FALSE, err |-> "Missing GITHUB_EVENT_NAME"]

\* the raw payload of an event, as parse_payload::<serde_json::Value> reads it
RawPayload(ev) ==
    JObject(<<
        Member(<<"c", "o", "m", "m", "e", "n", "t">>,
               JObject(<<Member(<<"b", "o", "d", "y">>, JString(ev.comment.body))>>)),
        Member(<<"i", "s", "s", "u", "e">>,
               JObject(<<
                   Member(<<"l", "a", "b", "e", "l", "s">>,
                          JArray(<<
                              JObject(<<Member(<<"n", "a", "m", "e">>, JString(<<"b", "u", "g">>))>>),
                              JObject(<<Member(<<"n", "a", "m", "e">>, JString(<<"c", "i">>))>>)
                          >>)),
                   Member(<<"n", "u", "m", "b", "e", "r">>, JNumber(42))
               >>))
    >>)

\* the context main builds: {"github": {"event": <raw payload>}}
Context(ev) ==
    JObject(<<Member(<<"g", "i", "t", "h", "u", "b">>,
                     JObject(<<Member(<<"e", "v", "e", "n", "t">>, RawPayload(ev))>>))>>)

\* the outcomes of Command::status: the shell could not be spawned, or it ran
\* and exited with a code
ShellOutcomes ==
    {[spawned |-> FALSE, code |-> 0], [spawned |-> TRUE, code |-> 0],
     [spawned |-> TRUE, code |-> 1]}

\* run that invokes the shell on whatever the renderer left
run_lenient(template, context, status) ==
    LET m == IF context.t = "object" THEN context ELSE JObject(<<>>)
        r == eval_lenient(template, m)
    IN  IF ~status.spawned THEN [ok |-> FALSE, err |-> "spawn", invoked |-> FALSE, cmd |-> <<>>]
        ELSE [ok |-> TRUE, err |-> "", invoked |-> TRUE, cmd |-> r.text]

\* fn run: render the command, invoke `sh -c` on it, return Ok whatever the exit
\* status; an Err of eval or of Command::status is returned
run(template, context, status) ==
    LET m == IF context.t = "object" THEN context ELSE JObject(<<>>)
        r == eval(template, m)
    IN  IF ~r.ok THEN [ok |-> FALSE, err |-> "template", invoked |-> FALSE, cmd |-> <<>>]
        ELSE IF ~status.spawned
        THEN [ok |-> FALSE, err |-> "spawn", invoked |-> FALSE, cmd |-> <<>>]
        ELSE [ok |-> TRUE, err |-> "", invoked |-> TRUE, cmd |-> r.text]

\* the condition loop of OnIssueComment::run that rejects nothing
BlockMatchesAlways(block, payload) == TRUE

RECURSIVE IfLoop(_, _)
\* the loop over self.if of OnIssueComment::run: FALSE where it returns at a
\* condition that is false, TRUE where it falls through to the steps
IfLoop(list, payload) ==
    IF list = <<>> THEN TRUE
    ELSE IF ~EvalCond(Head(list), payload) THEN FALSE
    ELSE IfLoop(Tail(list), payload)

\* whether OnIssueComment::run goes on to the steps of the block
BlockMatches(block, payload) == IfLoop(block.if, payload)

\* the rule blocks of a configuration: on.issue_comment, or none
Blocks(c) == IF c.on.issue_comment.some THEN c.on.issue_comment.v ELSE <<>>

\* where Vec::run goes after rule block b: the next block, or the end of the run
AfterBlock(b) ==
    IF b < Len(Blocks(config))
    THEN /\ pc' = "block"
         /\ blk' = b + 1
         /\ stp' = 0
         /\ result' = result
    ELSE /\ pc' = "done"
         /\ blk' = b
         /\ stp' = 0
         /\ result' = "Ok"

(***************************************************************************)
(* Inputs of Spec                                                          *)
(***************************************************************************)
\* "/t"
SlashT == <<"/", "t">>

\* sh -c 'echo ${{ github.event.issue.number }}'
EchoNumber ==
    <<"e", "c", "h", "o", " ", "$", "{", "{", " ">>
    \o <<"g", "i", "t", "h", "u", "b", ".", "e", "v", "e", "n", "t", ".">>
    \o <<"i", "s", "s", "u", "e", ".", "n", "u", "m", "b", "e", "r", " ", "}", "}">>

\* sh -c 'echo ${{ github.event.issue.labels.*.name }}': two labels, two matches
EchoLabels ==
    <<"e", "c", "h", "o", " ", "$", "{", "{", " ">>
    \o <<"g", "i", "t", "h", "u", "b", ".", "e", "v", "e", "n", "t", ".">>
    \o <<"i", "s", "s", "u", "e", ".", "l", "a", "b", "e", "l", "s", ".", "*", ".">>
    \o <<"n", "a", "m", "e", " ", "}", "}">>

RunTemplates == {EchoNumber, EchoLabels}
\* the `if` lists of the rule blocks: empty, one condition, two conditions
RunIfLists == {<<>>, <<IsPr>>, <<Command(<<"t">>), IsPr>>}
\* a comment "/t" on an issue, and a comment "x" on a pull request
RunEvents ==
    {IssueCommentEvent(None, "OWNER", "foo", SlashT),
     IssueCommentEvent("pr", "OWNER", "foo", <<"x">>)}
EnvNames == {"issue_comment", "push", None}

Step(template) == [run |-> template]
OnIssueComment(conds, steps) == [if |-> conds, steps |-> steps]
Config(issue_comment) == [on |-> [issue_comment |-> issue_comment]]

RECURSIVE BlockSeqs(_, _)
\* the sequences of k rule blocks holding at most n steps together
BlockSeqs(k, n) ==
    IF k = 0 THEN {<<>>}
    ELSE UNION {
           {<<OnIssueComment(i, [j \in DOMAIN s |-> Step(s[j])])>> \o rest :
                i \in RunIfLists, rest \in BlockSeqs(k - 1, n - Len(s))} :
           s \in SeqsUpTo(RunTemplates, n)}

RunConfigs ==
    {Config(NoVec)}
    \cup {Config(SomeVec(l)) : l \in UNION {BlockSeqs(k, MaxSteps) : k \in 0..MaxBlocks}}

\* the values the variables of the other specifications keep
IdleRun ==
    /\ pc = "idle" /\ env = None /\ event = None /\ config = None
    /\ blk = 0 /\ stp = 0
    /\ evaluated = <<>> /\ rendered = <<>> /\ executed = <<>> /\ result = ""
IdleCommand == command = <<>> /\ body = <<>> /\ matched = [done |-> FALSE, value |-> FALSE]
IdleEval == cond = None /\ subject = None /\ verdict = [done |-> FALSE, value |-> FALSE]
IdleRender ==
    /\ text = <<>> /\ ctx = None
    /\ out = [done |-> FALSE, ok |-> FALSE, text |-> <<>>, errors |-> <<>>]

(***************************************************************************)
(* Spec: one run of main                                                   *)
(***************************************************************************)
Init ==
    /\ pc = "start"
    /\ env = "unread"
    /\ event \in RunEvents
    /\ config \in RunConfigs
    /\ blk = 0 /\ stp = 0
    /\ evaluated = <<>> /\ rendered = <<>> /\ executed = <<>>
    /\ result = ""
    /\ IdleCommand /\ IdleEval /\ IdleRender

\* main, line 72: Event::from_env; its error ends the run
FromEnv ==
    /\ pc = "start"
    /\ \E name \in EnvNames, payload_ok \in BOOLEAN :
         LET r == from_env(name, payload_ok) IN
         /\ env' = name
         /\ IF r.ok
            THEN pc' = "config" /\ result' = result
            ELSE pc' = "failed" /\ result' = r.err
    /\ UNCHANGED <<event, config, blk, stp, evaluated, rendered, executed>>
    /\ UNCHANGED <<commandVars, evalVars, renderVars>>

\* main, lines 73-74: open and parse the configuration
LoadConfig ==
    /\ pc = "config"
    /\ \E config_ok \in BOOLEAN :
         IF config_ok
         THEN pc' = "context" /\ result' = result
         ELSE pc' = "failed" /\ result' = "Loading configuration"
    /\ UNCHANGED <<env, event, config, blk, stp, evaluated, rendered, executed>>
    /\ UNCHANGED <<commandVars, evalVars, renderVars>>

\* main, lines 78-85: build the context (the payload is parsed again), then
\* Config::run up to the first rule block
EnterRun ==
    /\ pc = "context"
    /\ \E payload_ok \in BOOLEAN :
         IF ~payload_ok
         THEN pc' = "failed" /\ result' = "parse_payload" /\ blk' = blk
         ELSE IF Blocks(config) = <<>>
         THEN pc' = "done" /\ result' = "Ok" /\ blk' = blk
         ELSE pc' = "block" /\ result' = result /\ blk' = 1
    /\ UNCHANGED <<env, event, config, stp, evaluated, rendered, executed>>
    /\ UNCHANGED <<commandVars, evalVars, renderVars>>

\* OnIssueComment::run up to its steps: the `if` loop; a block that is rejected,
\* or has no steps, returns Ok and Vec::run goes on
RunBlock ==
    /\ pc = "block"
    /\ LET block == Blocks(config)[blk]
           v == BlockMatches(block, event)
       IN  /\ evaluated' = Append(evaluated, [blk |-> blk, verdict |-> v])
           /\ IF v /\ block.steps # <<>>
              THEN pc' = "step" /\ stp' = 1 /\ blk' = blk /\ result' = result
              ELSE AfterBlock(blk)
    /\ UNCHANGED <<env, event, config, rendered, executed>>
    /\ UNCHANGED <<commandVars, evalVars, renderVars>>

\* Step::run of the step Vec::run is at, and Vec::run's move to what follows
RunStep ==
    /\ pc = "step"
    /\ \E status \in ShellOutcomes :
         LET block == Blocks(config)[blk]
             r == run(block.steps[stp].run, Context(event), status)
         IN  /\ rendered' = Append(rendered, [blk |-> blk, stp |-> stp])
             /\ executed' =
                  IF r.invoked
                  THEN Append(executed,
                              [blk |-> blk, stp |-> stp, cmd |-> r.cmd, code |-> status.code])
                  ELSE executed
             /\ IF ~r.ok
                THEN pc' = "failed" /\ result' = r.err /\ blk' = blk /\ stp' = stp
                ELSE IF stp < Len(block.steps)
                THEN pc' = "step" /\ stp' = stp + 1 /\ blk' = blk /\ result' = result
                ELSE AfterBlock(blk)
    /\ UNCHANGED <<env, event, config, evaluated>>
    /\ UNCHANGED <<commandVars, evalVars, renderVars>>

Next == FromEnv \/ LoadConfig \/ EnterRun \/ RunBlock \/ RunStep

Spec == Init /\ [][Next]_vars

(***************************************************************************)
(* SpecCommand: is_command on every name and body within the bounds        *)
(***************************************************************************)
NameChars == {"t", " "}
BodyChars == {"/", "t", "x", " ", "\n", "\r"}

InitCommand ==
    /\ command \in SeqsUpTo(NameChars, MaxName)
    /\ body \in SeqsUpTo(BodyChars, MaxBody)
    /\ matched = [done |-> FALSE, value |-> FALSE]
    /\ IdleRun /\ IdleEval /\ IdleRender

CheckCommand ==
    /\ ~matched.done
    /\ matched' = [done |-> TRUE, value |-> is_command(command, body)]
    /\ UNCHANGED <<command, body, runVars, evalVars, renderVars>>

NextCommand == CheckCommand

SpecCommand == InitCommand /\ [][NextCommand]_vars

(***************************************************************************)
(* SpecEval: IfIssueComment::eval on conditions up to two levels deep      *)
(***************************************************************************)
Leaves ==
    {IsPr, UserIs({"OWNER", "MEMBER"}), UserIn({"foo", "bar"}), Command(<<"t">>)}
\* what a list holds: a leaf, a negated leaf, an empty `and`, an empty `or`
ListItems == Leaves \cup {Not(c) : c \in Leaves} \cup {And(<<>>), Or(<<>>)}
EvalConds ==
    ListItems
    \cup {And(l) : l \in SeqsUpTo(ListItems, MaxList)}
    \cup {Or(l) : l \in SeqsUpTo(ListItems, MaxList)}
EvalEvents ==
    {IssueCommentEvent(pr, a, u, b) :
        pr \in {None, "pr"}, a \in {"OWNER", "NONE"}, u \in {"foo", "eve"},
        b \in {SlashT, <<"x">>}}

InitEval ==
    /\ cond \in EvalConds
    /\ subject \in EvalEvents
    /\ verdict = [done |-> FALSE, value |-> FALSE]
    /\ IdleRun /\ IdleCommand /\ IdleRender

Evaluate ==
    /\ ~verdict.done
    /\ verdict' = [done |-> TRUE, value |-> EvalCond(cond, subject)]
    /\ UNCHANGED <<cond, subject, runVars, commandVars, renderVars>>

NextEval == Evaluate

SpecEval == InitEval /\ [][NextEval]_vars

(***************************************************************************)
(* SpecRender: eval on templates put together from fragments               *)
(***************************************************************************)
Fragments ==
    {<<"H">>,
     <<"$", "{", "{", " ", "a">>,
     <<".", "*", " ", "}", "}">>,
     <<".", "b", " ", "}", "}">>,
     <<".", "c">>,
     <<"}", "}">>,
     <<"\n">>}

RECURSIVE Flatten(_)
Flatten(parts) == IF parts = <<>> THEN <<>> ELSE Head(parts) \o Flatten(Tail(parts))

\* "Hello ${{ foo.value }}!" of test_1
HelloTemplate ==
    <<"H", "e", "l", "l", "o", " ", "$", "{", "{", " ", "f", "o", "o", ".">>
    \o <<"v", "a", "l", "u", "e", " ", "}", "}", "!">>

\* {"foo": {"value": "World"}} of test_1
HelloContext ==
    JObject(<<Member(<<"f", "o", "o">>,
                     JObject(<<Member(<<"v", "a", "l", "u", "e">>,
                                      JString(<<"W", "o", "r", "l", "d">>))>>))>>)

\* {"a": {"b": "W", "c": 42}}
TwoScalars ==
    JObject(<<Member(<<"a">>,
                     JObject(<<Member(<<"b">>, JString(<<"W">>)),
                               Member(<<"c">>, JNumber(42))>>))>>)

\* {"a": {"b": true, "c": {"b": "x"}, "d": null}}
OneScalar ==
    JObject(<<Member(<<"a">>,
                     JObject(<<Member(<<"b">>, JBool(TRUE)),
                               Member(<<"c">>, JObject(<<Member(<<"b">>, JString(<<"x">>))>>)),
                               Member(<<"d">>, JNull)>>))>>)

RenderTemplates ==
    {HelloTemplate} \cup {Flatten(p) : p \in SeqsUpTo(Fragments, MaxFrags)}
RenderContexts == {HelloContext, TwoScalars, OneScalar}

InitRender ==
    /\ text \in RenderTemplates
    /\ ctx \in RenderContexts
    /\ out = [done |-> FALSE, ok |-> FALSE, text |-> <<>>, errors |-> <<>>]
    /\ IdleRun /\ IdleCommand /\ IdleEval

Render ==
    /\ ~out.done
    /\ LET r == eval(text, ctx) IN
       out' = [done |-> TRUE, ok |-> r.ok, text |-> r.text, errors |-> r.errors]
    /\ UNCHANGED <<text, ctx, runVars, commandVars, evalVars>>

NextRender == Render

SpecRender == InitRender /\ [][NextRender]_vars

(***************************************************************************)
(* Properties of Spec                                                      *)
(***************************************************************************)
\* the rule block with index b has a condition in its `if` list that is false
HasFalseCondition(b) ==
    \E k \in DOMAIN Blocks(config)[b].if : ~EvalCond(Blocks(config)[b].if[k], event)

\* the log entries of rule block b
RenderedOf(b) == {i \in DOMAIN rendered : rendered[i].blk = b}
ExecutedOf(b) == {i \in DOMAIN executed : executed[i].blk = b}

\* C1: a rule block whose `if` list is empty never matches: none of its steps
\* is rendered and no shell command is invoked for it.
C1_EmptyIfNeverMatches ==
    \A i \in DOMAIN evaluated :
        Blocks(config)[i].if = <<>>
        => /\ ~evaluated[i].verdict
           /\ RenderedOf(i) = {}
           /\ ExecutedOf(i) = {}

\* C2: once a step's command has exited with a non-zero status the run has
\* ended in an error and that command is the last one invoked.
C2_NonZeroExitEndsRun ==
    \A i \in DOMAIN executed :
        executed[i].code # 0
        => /\ pc = "failed"
           /\ i = Len(executed)
           /\ rendered[Len(rendered)].blk = executed[i].blk
           /\ rendered[Len(rendered)].stp = executed[i].stp

\* C3: when the event name read is not "issue_comment" (or is missing) the run
\* has failed with from_env's error, and no condition was evaluated, no step
\* rendered and no command invoked, whatever the configuration.
C3_UnsupportedKindFailsFirst ==
    (pc # "start" /\ env # "issue_comment")
    => /\ pc = "failed"
       /\ result \in {"Unknown or unsupported event type", "Missing GITHUB_EVENT_NAME"}
       /\ evaluated = <<>>
       /\ rendered = <<>>
       /\ executed = <<>>

\* C3 witness: the run failed on the event name "push" although the
\* configuration holds a rule block that matches the event and has steps
C3_Witness ==
    /\ pc = "failed"
    /\ env = "push"
    /\ \E b \in DOMAIN Blocks(config) :
         /\ Blocks(config)[b].if # <<>>
         /\ ~HasFalseCondition(b)
         /\ Blocks(config)[b].steps # <<>>

\* the template of the step a log entry names fails to render
RenderFails(e) ==
    ~eval(Blocks(config)[e.blk].steps[e.stp].run, Context(event)).ok

\* C9: when the template of a step fails to render, the run has ended in that
\* error at once: that step is the last one rendered, no command was invoked for
\* it, no later rule block was evaluated, and the commands invoked are those of
\* the steps before it.
C9_RenderFailureEndsRun ==
    \A i \in DOMAIN rendered :
        RenderFails(rendered[i])
        => /\ pc = "failed"
           /\ result = "template"
           /\ i = Len(rendered)
           /\ Len(evaluated) = rendered[i].blk
           /\ Len(executed) = Len(rendered) - 1
           /\ \A j \in DOMAIN executed :
                /\ executed[j].blk = rendered[j].blk
                /\ executed[j].stp = rendered[j].stp

\* C9 witness: a step failed to render after an earlier step had run
C9_Witness ==
    /\ pc = "failed"
    /\ result = "template"
    /\ rendered # <<>>
    /\ RenderFails(rendered[Len(rendered)])
    /\ executed # <<>>

\* C10: rule blocks are evaluated in order, each once; a block with a false
\* condition has none of its steps rendered or run, is not where a run fails,
\* and is followed by the evaluation of the next block (or by the successful
\* end of the run after the last); a block with conditions that all hold has
\* its steps taken up; a run in which every block has a false condition
\* invokes no command and ends with Ok.
C10_RejectedBlockIsSkipped ==
    /\ \A i \in DOMAIN evaluated : evaluated[i].blk = i
    /\ \A i \in DOMAIN evaluated :
         HasFalseCondition(i)
         => /\ ~evaluated[i].verdict
            /\ RenderedOf(i) = {}
            /\ ExecutedOf(i) = {}
            /\ pc \in {"block", "step", "done"} \/ blk # i
            /\ IF i < Len(Blocks(config))
               THEN Len(evaluated) > i \/ (pc = "block" /\ blk = i + 1)
               ELSE pc = "done" /\ result = "Ok"
    /\ \A i \in DOMAIN evaluated :
         (Blocks(config)[i].if # <<>> /\ ~HasFalseCondition(i))
         => /\ evaluated[i].verdict
            /\ Blocks(config)[i].steps # <<>>
                 => RenderedOf(i) # {} \/ (pc = "step" /\ blk = i /\ stp = 1)
    /\ (evaluated # <<>> /\ \A b \in DOMAIN Blocks(config) : HasFalseCondition(b))
         => /\ executed = <<>>
            /\ pc \in {"block", "done"}
            /\ pc = "done" => (result = "Ok" /\ Len(evaluated) = Len(Blocks(config)))
    /\ (pc = "block") => ENABLED RunBlock

\* C10 witness: the first rule block was rejected, the second one, which has a
\* condition, matched and a command of its steps was invoked
C10_Witness ==
    /\ Len(evaluated) = 2
    /\ HasFalseCondition(1)
    /\ Blocks(config)[2].if # <<>>
    /\ ~HasFalseCondition(2)
    /\ ExecutedOf(1) = {}
    /\ ExecutedOf(2) # {}

(***************************************************************************)
(* Properties of SpecCommand                                               *)
(***************************************************************************)
\* b[1..n] is the first line of b: it holds no line break and ends where b
\* ends or right before a line break
IsFirstLine(b, n) ==
    /\ \A k \in 1..n : b[k] # "\n"
    /\ n = Len(b) \/ b[n + 1] = "\n"

\* b[a..z] is b[1..n] with the whitespace at both ends taken off
IsTrimmed(b, n, a, z) ==
    /\ \A k \in 1..(a - 1) : IsWhitespace(b[k])
    /\ \A k \in (z + 1)..n : IsWhitespace(b[k])
    /\ \/ a = z + 1 /\ a = n + 1
       \/ a <= z /\ ~IsWhitespace(b[a]) /\ ~IsWhitespace(b[z])

\* C6: command(name) is true exactly when the body is not empty and its first
\* line, trimmed, starts with "/" and the name; so it is false of the empty
\* body, of a body whose first line starts with other text, and of a body
\* whose first line holds no "/".
C6_CommandIsPrefixOfFirstLine ==
    matched.done
    => /\ matched.value <=>
            /\ body # <<>>
            /\ \E n \in 0..Len(body) :
                 /\ IsFirstLine(body, n)
                 /\ \E a \in 1..(n + 1), z \in 0..n :
                      /\ IsTrimmed(body, n, a, z)
                      /\ StartsWith(SubSeq(body, a, z), <<"/">> \o command)
       /\ body = <<>> => ~matched.value
       /\ (body # <<>> /\ ~IsWhitespace(body[1]) /\ body[1] # "/") => ~matched.value
       /\ (\A k \in DOMAIN body : body[k] = "/" => \E j \in 1..(k - 1) : body[j] = "\n")
            => ~matched.value

\* C6 witness: command("t") holds of the body " /tt" followed by a second line
C6_Witness ==
    /\ matched.done
    /\ matched.value
    /\ command = <<"t">>
    /\ body = <<" ", "/", "t", "t">>

(***************************************************************************)
(* Properties of SpecEval                                                  *)
(***************************************************************************)
\* C4: and(L) is false when L is empty and otherwise the conjunction of the
\* verdicts of the conditions of L.
C4_AndOfList ==
    (verdict.done /\ cond.kind = "and")
    => verdict.value =
         (cond.of # <<>> /\ \A i \in DOMAIN cond.of : EvalCond(cond.of[i], subject))

TextSites == Sites(text, 1)

\* the number of scalar values expression k matches in the context
MatchCount(k) == Len(Matches(TextSites[k].expr, ctx))

RECURSIVE Splice(_, _)
\* the template from position `from` on, with the expressions k, k + 1, ...
\* replaced by their first match, or by nothing when they have none
Splice(k, from) ==
    IF k > Len(TextSites) THEN SubSeq(text, from, Len(text))
    ELSE LET m == Matches(TextSites[k].expr, ctx) IN
         SubSeq(text, from, TextSites[k].from - 1)
         \o (IF m = <<>> THEN <<>> ELSE m[1])
         \o Splice(k + 1, TextSites[k].to + 1)

\* C7: when an expression of the template matches two or more scalar values,
\* eval returns an error and no text.
C7_AmbiguousExpressionFails ==
    (out.done /\ \E k \in DOMAIN TextSites :
                    Compiles(TextSites[k].expr) /\ MatchCount(k) >= 2)
    => ~out.ok /\ out.text = <<>> /\ out.errors # <<>>

\* C7 witness: a render failed on a template with an expression of two matches
\* and another expression of exactly one match
C7_Witness ==
    /\ out.done
    /\ ~out.ok
    /\ \E k, l \in DOMAIN TextSites :
         /\ Compiles(TextSites[k].expr) /\ MatchCount(k) >= 2
         /\ Compiles(TextSites[l].expr) /\ MatchCount(l) = 1

\* C8: when every expression of the template is a path that matches at most
\* one scalar value, eval returns Ok and the text is the template with each
\* expression replaced by the string of its match, or by nothing when it has
\* none, the text outside the expressions unchanged.
C8_RenderSubstitutes ==
    (out.done /\ \A k \in DOMAIN TextSites :
                    Compiles(TextSites[k].expr) /\ MatchCount(k) <= 1)
    => out.ok /\ out.errors = <<>> /\ out.text = Splice(1, 1)

\* "Hello World!"
HelloWorld == <<"H", "e", "l", "l", "o", " ", "W", "o", "r", "l", "d", "!">>

\* C8 witness: test_1, "Hello ${{ foo.value }}!" rendered to "Hello World!"
C8_Witness ==
    /\ out.done
    /\ text = HelloTemplate
    /\ ctx = HelloContext
    /\ out.ok
    /\ out.text = HelloWorld

====
